---- MODULE Spec2Model ----
(***************************************************************************)
(* Adaptive behavioural memory and safe-adaptation engine of thoughtgarden *)
(* (src/backend/Transformer Model/userbehaviour.py): the episodic ring     *)
(* buffer, the semantic store with its near-duplicate gate and pruning,    *)
(* the drift-protected user profile, the Thompson-sampling bandit and the  *)
(* checkpointed LoRA adaptation driven by provideFeedback.                 *)
(*                                                                         *)
(* Numbers.  Ratings are tenths (9 is 0.9), KL divergences hundredths (10  *)
(* is 0.1), similarity thresholds rationals <<num, den>>.  Embeddings are  *)
(* integer vectors whose norms are integers, so that the cosine the source *)
(* computes in float32 and the exact cosine of the model compare alike     *)
(* against every threshold used here.  The profile's arithmetic is done on *)
(* JavaScript numbers in thousandths: a number is [nan, v], NaN or the     *)
(* integer v, and a property read that finds nothing gives undefined,      *)
(* which arithmetic turns into NaN.                                        *)
(*                                                                         *)
(* Time.  now is Date.now(); one synchronous run of code reads one value.  *)
(*                                                                         *)
(* Asynchrony.  JavaScript runs a handler to its next await without        *)
(* interruption; each action below is one such run of provideFeedback.     *)
(* Spec runs the calls one after the other (a caller that awaits each      *)
(* call), ConcSpec lets calls interleave at their awaits, StoreSpec        *)
(* drives the semantic store alone through addSemanticMemory, ProfileSpec  *)
(* the profile alone through updateProfileEmbedding.                       *)
(***************************************************************************)
EXTENDS Integers, Sequences, FiniteSets, TLC

\* ------------------------------------------------------------- bounds
MaxTime == 1        \* the clock runs from 0 to MaxTime
MaxAppends == 2     \* processInteraction calls
MaxFeedback == 2    \* provideFeedback calls made one after the other
MaxInserts == 6     \* direct addSemanticMemory calls (StoreSpec)
NumCalls == 2       \* provideFeedback calls made concurrently
MaxUpdates == 4     \* direct updateProfileEmbedding calls (ProfileSpec)
MaxCalls == 4       \* processInteraction and provideFeedback calls in one run
MaxGateInserts == 7 \* direct addSemanticMemory calls (GateSpec)
MaxConcInserts == 4 \* direct addSemanticMemory calls (ConcStoreSpec)

\* ---------------------------------------------------- program constants
n_layers == 2
kl_divergence_cap == 10
AdaptRating == 7
PromoteRating == 8
RewardRating == 5
PruneDivisor == 5
stability_threshold == 100
default_gradient_clip == 1000
embedding_dim == 128

DefaultThreshold == <<85, 100>>
Thresholds == {DefaultThreshold, <<1, 1>>}

Arms == {"temperature", "top_p", "persona_weight", "context_length"}
Blocks == 0..(n_layers - 1)

\* ------------------------------------------------------------- inputs
Embeds == {<<1, 0>>, <<3, 4>>, <<4, 3>>}
InteractionEmbeds == {<<1, 0>>, <<4, 3>>}
EpisodicSizes == {1, 2}      \* max_episodic_size, as configured
SemanticSizes == {1}         \* max_semantic_size under Spec and ConcSpec
StoreSizes == {1, 2, 5}      \* max_semantic_size under StoreSpec
Ratings == {5, 7, 8, 9}
FeedbackTypes == {"explicit", "implicit"}
KLs == {10, 20}
Calls == 1..NumCalls

VARIABLES
    max_episodic_size,  \* config, fixed at construction
    max_semantic_size,  \* config, fixed at construction
    lora_active,        \* config.enable_lora !== false
    serial,             \* the caller awaits each call before the next one
    now,                \* Date.now()
    episodic,           \* [buffer, head, size]
    semantic,           \* [embeddings, metadata]
    arms,               \* bandit statistics per arm
    blocks,             \* the LoRA parameters of each transformer block
    lora,               \* [adaptation_history, rollback_checkpoint]
    call,               \* the provideFeedback calls: position and locals
    appended,           \* history: the ids of the records appended, in order
    nFeedback,          \* history: provideFeedback calls started
    nInserts,           \* history: direct addSemanticMemory calls
    last,               \* history: what the last direct addSemanticMemory call returned
    evicted,            \* history: the embeddings pruning has removed
    profile,            \* [embedding, update_count]
    pi,                 \* the processInteraction call: position and result
    update,             \* history: the last direct updateProfileEmbedding call
    nUpdates            \* history: direct updateProfileEmbedding calls

vars == <<max_episodic_size, max_semantic_size, lora_active, serial, now, episodic,
          semantic, arms, blocks, lora, call, appended, nFeedback, nInserts,
          last, evicted, profile, pi, update, nUpdates>>

config == <<max_episodic_size, max_semantic_size, lora_active, serial>>

profileState == <<profile, update, nUpdates>>

\* ------------------------------------------------------------ helpers
Min(a, b) == IF a < b THEN a ELSE b
Max(a, b) == IF a > b THEN a ELSE b

Dot(a, b) == a[1] * b[1] + a[2] * b[2]

\* cosine(a, b) > thr[1] / thr[2], for non-zero a and b and thr >= 0
CosineExceeds(a, b, thr) ==
    /\ Dot(a, b) > 0
    /\ Dot(a, b) * Dot(a, b) * thr[2] * thr[2]
         > thr[1] * thr[1] * Dot(a, a) * Dot(b, b)

\* cosine(a, b) >= thr[1] / thr[2]
CosineAtLeast(a, b, thr) ==
    /\ Dot(a, b) > 0
    /\ Dot(a, b) * Dot(a, b) * thr[2] * thr[2]
         >= thr[1] * thr[1] * Dot(a, a) * Dot(b, b)

\* ----------------------------------------------------- EpisodicStore
EpisodicId(t, slot) == <<t, slot>>

\* addEpisodicMemory with the size counted past the capacity
addEpisodicMemoryUncapped(ep, interaction, t, cap) ==
    [buffer |-> [ep.buffer EXCEPT ![ep.head + 1] =
                    <<[id |-> <<t, ep.head>>,
                       content |-> interaction.content,
                       embedding |-> interaction.embedding]>>],
     head |-> (ep.head + 1) % cap,
     size |-> ep.size + 1]

\* addEpisodicMemory: overwrite slot head, advance head, size up to capacity
addEpisodicMemory(ep, interaction, t, cap) ==
    [buffer |-> [ep.buffer EXCEPT ![ep.head + 1] =
                    <<[id |-> EpisodicId(t, ep.head),
                       content |-> interaction.content,
                       embedding |-> interaction.embedding]>>],
     head |-> (ep.head + 1) % cap,
     size |-> Min(ep.size + 1, cap)]

\* findInteractionById: the first slot whose record has the id, << >> if none
findInteractionById(ep, id) ==
    LET hits == {i \in 1..Len(ep.buffer) :
                    ep.buffer[i] # << >> /\ ep.buffer[i][1].id = id}
    IN  IF hits = {} THEN << >>
        ELSE <<ep.buffer[CHOOSE i \in hits : \A j \in hits : i <= j][1]>>

\* ----------------------------------------------------- SemanticStore
\* the gate with >= for >
MaxSimilarityAtLeast(sem, embedding, thr) ==
    \E i \in 1..Len(sem.embeddings) : CosineAtLeast(embedding, sem.embeddings[i], thr)

\* the gate comparing with the newest record only
MaxSimilarityExceedsNewest(sem, embedding, thr) ==
    /\ Len(sem.embeddings) > 0
    /\ CosineExceeds(embedding, sem.embeddings[Len(sem.embeddings)], thr)

\* computeSimilarities and Math.max(...similarities) > similarity_threshold
MaxSimilarityExceeds(sem, embedding, thr) ==
    \E i \in 1..Len(sem.embeddings) : CosineExceeds(embedding, sem.embeddings[i], thr)

\* the comparator (a, b) => a.score - b.score is negative, with
\* score = access_count / (Date.now() - timestamp): 0/0 is NaN, n/0 is
\* Infinity, and a NaN difference orders nothing
ScoreLess(a, b, t) ==
    LET ageA == t - a.timestamp
        ageB == t - b.timestamp
        nanA == a.access_count = 0 /\ ageA = 0
        nanB == b.access_count = 0 /\ ageB = 0
        infA == a.access_count > 0 /\ ageA = 0
        infB == b.access_count > 0 /\ ageB = 0
    IN  /\ ~nanA /\ ~nanB /\ ~infA
        /\ \/ infB
           \/ a.access_count * ageB < b.access_count * ageA

\* an unstable sort: idx moves left past the ones it ties with as well
RECURSIVE SortedInsertUnstable(_, _, _, _)
SortedInsertUnstable(order, idx, metadata, t) ==
    IF order = << >> THEN <<idx>>
    ELSE LET n == Len(order)
         IN  IF ~ScoreLess(metadata[order[n]], metadata[idx], t)
             THEN Append(SortedInsertUnstable(SubSeq(order, 1, n - 1), idx, metadata, t),
                         order[n])
             ELSE Append(order, idx)

\* Array.prototype.sort is stable: idx moves left past strictly greater ones
RECURSIVE SortedInsert(_, _, _, _)
SortedInsert(order, idx, metadata, t) ==
    IF order = << >> THEN <<idx>>
    ELSE LET n == Len(order)
         IN  IF ScoreLess(metadata[idx], metadata[order[n]], t)
             THEN Append(SortedInsert(SubSeq(order, 1, n - 1), idx, metadata, t),
                         order[n])
             ELSE Append(order, idx)

RECURSIVE SortByScore(_, _, _)
SortByScore(n, metadata, t) ==
    IF n = 0 THEN << >>
    ELSE SortedInsert(SortByScore(n - 1, metadata, t), n, metadata, t)

\* Math.ceil for Math.floor
PruneBatchCeil(cap) == (cap + PruneDivisor - 1) \div PruneDivisor

\* Math.floor(max_semantic_size * 0.2)
PruneBatch(cap) == cap \div PruneDivisor

RECURSIVE Without(_, _, _)
Without(s, victims, i) ==
    IF i > Len(s) THEN << >>
    ELSE IF i \in victims THEN Without(s, victims, i + 1)
         ELSE <<s[i]>> \o Without(s, victims, i + 1)

\* slice(-k) for slice(0, k): the last PruneBatch indices in score order
PruneIndicesFromEnd(sem, t, cap) ==
    LET order == SortByScore(Len(sem.metadata), sem.metadata, t)
        k == Min(PruneBatch(cap), Len(order))
    IN  {order[Len(order) + 1 - j] : j \in 1..k}

\* indices_to_remove: the first PruneBatch indices in score order
PruneIndices(sem, t, cap) ==
    LET order == SortByScore(Len(sem.metadata), sem.metadata, t)
        k == Min(PruneBatch(cap), Len(order))
    IN  {order[j] : j \in 1..k}

\* pruneSemanticMemory: splice out the PruneBatch lowest-scoring records
pruneSemanticMemory(sem, t, cap) ==
    LET victims == PruneIndices(sem, t, cap)
    IN  [embeddings |-> Without(sem.embeddings, victims, 1),
         metadata |-> Without(sem.metadata, victims, 1)]

\* addSemanticMemory, lines 197-202: the two pushes
Pushed(sem, embedding, metadata, t) ==
    [embeddings |-> Append(sem.embeddings, embedding),
     metadata |-> Append(sem.metadata,
         [interaction_id |-> metadata.interaction_id,
          rating |-> metadata.rating,
          feedback_type |-> metadata.feedback_type,
          timestamp |-> t,
          access_count |-> 0])]

\* the prune run after every push, whatever the length
SemanticPushAlwaysPrunes(sem, embedding, metadata, t, cap) ==
    pruneSemanticMemory(Pushed(sem, embedding, metadata, t), t, cap)

\* addSemanticMemory, lines 197-210: push, then prune when over capacity
SemanticPush(sem, embedding, metadata, t, cap) ==
    LET pushed == Pushed(sem, embedding, metadata, t)
    IN  IF Len(pushed.embeddings) > cap
        THEN pruneSemanticMemory(pushed, t, cap)
        ELSE pushed

\* the embeddings spliced out: in the store with embedding pushed, and
\* fewer times or not at all in the store after the call
Evictions(sem, embedding, after) ==
    LET pushed == Append(sem.embeddings, embedding)
        Count(s, x) == Cardinality({i \in 1..Len(s) : s[i] = x})
    IN  IF Len(after.embeddings) = Len(pushed) THEN {}
        ELSE {x \in {pushed[i] : i \in 1..Len(pushed)} :
                 Count(after.embeddings, x) < Count(pushed, x)}

\* addSemanticMemory run as a whole: the store after it and what it returns
addSemanticMemory(sem, embedding, metadata, thr, t, cap) ==
    IF Len(sem.embeddings) > 0 /\ MaxSimilarityExceeds(sem, embedding, thr)
    THEN [store |-> sem, result |-> FALSE]
    ELSE [store |-> SemanticPush(sem, embedding, metadata, t, cap), result |-> TRUE]

\* what the last addSemanticMemory call returned
NoCall == "none"
Returned(result) == IF result THEN "true" ELSE "false"

\* ------------------------------------------------- JavaScript numbers
\* a number in thousandths, or NaN
NaN == [nan |-> TRUE, v |-> 0]
Num(x) == [nan |-> FALSE, v |-> x]

\* a * b and a / b; NaN in, NaN out
Times(a, b) == IF a.nan \/ b.nan THEN NaN ELSE Num((a.v * b.v) \div 1000)
Over(a, b) ==
    IF a.nan \/ b.nan \/ b.v = 0 THEN NaN ELSE Num((a.v * 1000) \div b.v)

\* a > b and a < b: false as soon as one side is NaN
Greater(a, b) == ~a.nan /\ ~b.nan /\ a.v > b.v
Less(a, b) == ~a.nan /\ ~b.nan /\ a.v < b.v

\* Math.max(a, b)
MathMax(a, b) == IF a.nan \/ b.nan THEN NaN ELSE IF a.v > b.v THEN a ELSE b

\* Math.pow(b, n) for an integer n >= 0: 1 for n = 0 whatever b is
RECURSIVE MathPow(_, _)
MathPow(b, n) ==
    IF n = 0 THEN Num(1000)
    ELSE IF b.nan THEN NaN ELSE Times(b, MathPow(b, n - 1))

\* the integer square root of n, found between lo and hi
RECURSIVE ISqrt(_, _, _)
ISqrt(n, lo, hi) ==
    IF lo >= hi THEN lo
    ELSE LET mid == (lo + hi + 1) \div 2
         IN  IF mid * mid <= n THEN ISqrt(n, mid, hi) ELSE ISqrt(n, lo, mid - 1)

\* tf.norm of a vector of two numbers
Norm(d) ==
    IF d[1].nan \/ d[2].nan THEN NaN
    ELSE LET sq == d[1].v * d[1].v + d[2].v * d[2].v
         IN  Num(ISqrt(sq, 0, Min(sq, 46340)))

\* ------------------------------------------------------- UserProfile
\* createLearningSchedule: the object it returns, without getCurrentLR
learning_schedule == [base_lr |-> 100, decay_rate |-> 995, min_lr |-> 10]

\* getCurrentLR is bound to the this of createLearningSchedule: the manager
BoundThis == "manager"

\* this.<name> read as a number inside getCurrentLR: the manager has
\* max_episodic_size, max_semantic_size, embedding_dim, episodic, semantic and
\* profile, none of the schedule's properties, and undefined is NaN in
\* arithmetic
ThisProperty(this, name) ==
    IF this = "schedule" THEN Num(learning_schedule[name])
    ELSE NaN

\* getCurrentLR: Math.max(base_lr * Math.pow(decay_rate, update_count), min_lr)
getCurrentLR(this, update_count) ==
    LET decayed == Times(ThisProperty(this, "base_lr"),
                         MathPow(ThisProperty(this, "decay_rate"), update_count))
    IN  MathMax(decayed, ThisProperty(this, "min_lr"))

NoProfile == [embedding |-> << >>, update_count |-> 0]

\* the delta of updateProfileEmbedding, lines 255-260: scaled, then clipped
ClippedDelta(current, new_embedding, current_lr, gradient_clip) ==
    LET delta == [i \in 1..2 |-> Times(Num(new_embedding[i] - current[i]), current_lr)]
        norm == Norm(delta)
    IN  IF Greater(norm, gradient_clip)
        THEN [i \in 1..2 |-> Times(Over(delta[i], norm), gradient_clip)]
        ELSE delta

\* the norm the stability check of line 263 reads: the one taken at line 256,
\* before the clipping
CheckedNorm(current, new_embedding, current_lr) ==
    Norm([i \in 1..2 |-> Times(Num(new_embedding[i] - current[i]), current_lr)])

\* updateProfileEmbedding with the first embedding counted as an update
updateProfileEmbeddingCounted(prof, new_embedding, gradient_clip) ==
    LET current_lr == getCurrentLR(BoundThis, prof.update_count)
    IN  IF prof.embedding = << >>
        THEN [embedding |-> <<new_embedding>>, update_count |-> prof.update_count + 1]
        ELSE LET current == prof.embedding[1]
                 delta == ClippedDelta(current, new_embedding, current_lr,
                                       gradient_clip)
             IN  IF Less(CheckedNorm(current, new_embedding, current_lr),
                         Num(stability_threshold))
                 THEN [embedding |-> <<[i \in 1..2 |-> current[i] + delta[i].v]>>,
                       update_count |-> prof.update_count + 1]
                 ELSE prof

\* updateProfileEmbedding
updateProfileEmbedding(prof, new_embedding, gradient_clip) ==
    LET current_lr == getCurrentLR(BoundThis, prof.update_count)
    IN  IF prof.embedding = << >>
        THEN [prof EXCEPT !.embedding = <<new_embedding>>]
        ELSE LET current == prof.embedding[1]
                 delta == ClippedDelta(current, new_embedding, current_lr,
                                       gradient_clip)
             IN  IF Less(CheckedNorm(current, new_embedding, current_lr),
                         Num(stability_threshold))
                 THEN [embedding |-> <<[i \in 1..2 |-> current[i] + delta[i].v]>>,
                       update_count |-> prof.update_count + 1]
                 ELSE prof

\* getMemoryFootprint, in tenths of a kilobyte: Math.round(x * 10) / 10
getMemoryFootprint(ep, sem) ==
    LET episodic_kb == ep.size * 5
        semantic_kb == (Len(sem.embeddings) * embedding_dim * 40 + 512) \div 1024
        profile_kb == (embedding_dim * 40 + 512) \div 1024
        total_kb == episodic_kb
                    + ((Len(sem.embeddings) + 1) * embedding_dim * 40 + 512) \div 1024
    IN  [episodic_kb |-> episodic_kb, semantic_kb |-> semantic_kb,
         profile_kb |-> profile_kb, total_kb |-> total_kb]

\* ------------------------------------------------------------ Bandit
\* arms that start with no success and no failure counted
BanditInitZero == [a \in Arms |-> [alpha |-> 0, beta |-> 0, total_pulls |-> 0,
                                   total_reward |-> 0]]

BanditInit == [a \in Arms |-> [alpha |-> 1, beta |-> 1, total_pulls |-> 0,
                               total_reward |-> 0]]

\* reward with a rating of 0.5 counted as a success
rewardAtLeast(stats, rating) ==
    [a \in Arms |->
        [alpha |-> IF rating >= RewardRating THEN stats[a].alpha + 1
                   ELSE stats[a].alpha,
         beta |-> IF rating >= RewardRating THEN stats[a].beta
                  ELSE stats[a].beta + 1,
         total_pulls |-> stats[a].total_pulls + 1,
         total_reward |-> stats[a].total_reward + rating]]

\* reward without the else: beta counts every call
rewardBetaAlways(stats, rating) ==
    [a \in Arms |->
        [alpha |-> IF rating > RewardRating THEN stats[a].alpha + 1
                   ELSE stats[a].alpha,
         beta |-> stats[a].beta + 1,
         total_pulls |-> stats[a].total_pulls + 1,
         total_reward |-> stats[a].total_reward + rating]]

\* reward: a pull and the rating on every arm, alpha or beta by the rating
reward(stats, rating) ==
    [a \in Arms |->
        [alpha |-> IF rating > RewardRating THEN stats[a].alpha + 1
                   ELSE stats[a].alpha,
         beta |-> IF rating > RewardRating THEN stats[a].beta
                  ELSE stats[a].beta + 1,
         total_pulls |-> stats[a].total_pulls + 1,
         total_reward |-> stats[a].total_reward + rating]]

\* sampleBeta draws gamma1 / (gamma1 + gamma2), in hundredths, for each arm
SampleDraws == {[a \in Arms |-> 5],
                [a \in Arms |-> IF a = "temperature" THEN 99 ELSE 50]}

\* recommend with every sample counted as a pull
recommendCounting(stats, draw) ==
    [arms |-> [a \in Arms |-> [stats[a] EXCEPT !.total_pulls = @ + 1]],
     recommendations |-> [a \in Arms |-> Max(10, Min(100, draw[a]))]]

\* recommend: a sample per arm clamped to [0.1, 1.0]; the statistics are read
recommend(stats, draw) ==
    [arms |-> stats,
     recommendations |-> [a \in Arms |-> Max(10, Min(100, draw[a]))]]

\* getPerformanceMetrics: the ratios as <<numerator, denominator>>
getPerformanceMetrics(stats) ==
    [a \in Arms |->
        [avg_reward |-> <<stats[a].total_reward, Max(stats[a].total_pulls, 1)>>,
         confidence |-> <<stats[a].alpha, stats[a].alpha + stats[a].beta>>,
         total_pulls |-> stats[a].total_pulls]]

\* bandit.update(behavioral_signals): the policy's statistics are those that
\* reward() keeps
banditUpdate(stats) == stats

\* ------------------------------------------------ AdaptationController
\* saveLoRAState(): a snapshot of the adapters of every block
saveLoRAState(params) == <<params>>

\* rollbackLoRAAdapters(): restore the snapshot and drop it
rollbackLoRAAdapters(params, lo) ==
    IF lo.rollback_checkpoint = << >>
    THEN [blocks |-> params, lora |-> lo]
    ELSE [blocks |-> lo.rollback_checkpoint[1],
          lora |-> [lo EXCEPT !.rollback_checkpoint = << >>]]

\* calculateLoRAGradients resolves with a Map from block_<idx> to a gradient,
\* the candidate delta of every block
Gradients == {[b \in Blocks |-> 1]}

\* the forEach stopping one block short
updateBlocksSkippingLast(params, g, failAt) ==
    [b \in Blocks |-> IF b \in DOMAIN g /\ b < failAt /\ b < n_layers - 1
                      THEN params[b] + g[b]
                      ELSE params[b]]

\* updateBlockLoRA on the blocks the forEach reaches before one throws at
\* failAt (n_layers: none throws)
updateBlocks(params, g, failAt) ==
    [b \in Blocks |-> IF b \in DOMAIN g /\ b < failAt THEN params[b] + g[b]
                      ELSE params[b]]

\* the cap compared ten times too large
ExceedsLooseCap(kl) == kl > 10 * kl_divergence_cap

\* line 595: kl_div > this.lora.kl_divergence_cap
ExceedsCap(kl) == kl > kl_divergence_cap

\* the adaptation tried whatever enable_lora says
AdaptCondAlways(rating, feedback_type) ==
    rating > AdaptRating /\ feedback_type = "explicit"

\* line 562: the adaptation is tried
AdaptCond(rating, feedback_type) ==
    rating > AdaptRating /\ feedback_type = "explicit" /\ lora_active

\* the promotion at the adaptation's rating
PromoteCondLow(rating) == rating > AdaptRating

\* line 572: the interaction is promoted
PromoteCond(rating) == rating > PromoteRating

\* the await outside any try block
TryCatchesNot == FALSE

\* lines 563-565: the await of performSafeLoRAUpdate is inside try/catch
TryCatches == TRUE

\* a catch block that only logs
CatchOnlyLogs == FALSE

\* line 567: the catch block calls rollbackLoRAAdapters
CatchRollsBack == TRUE

\* -------------------------------------------------------------- Init
IdleCall == [pc |-> "idle", rating |-> 0, interaction_id |-> << >>,
             feedback_type |-> "", embedding |-> << >>, dup |-> FALSE,
             adaptation |-> "none", promotion |-> "none",
             kl |-> 0, paramsBefore |-> << >>, historyBefore |-> << >>]

\* the processInteraction call: not started, awaiting generateDynamicContext
\* ("context"), returned with its result, or rejected; the caller holds the
\* outcome until its next call
NoResult == << >>
IdleInteraction == [pc |-> "idle", result |-> NoResult]

\* no direct updateProfileEmbedding call yet
NoUpdate == [new_embedding |-> << >>, gradient_clip |-> NaN, before |-> NoProfile]

InitWith(semanticSizes) ==
    /\ max_episodic_size \in EpisodicSizes
    /\ max_semantic_size \in semanticSizes
    /\ lora_active \in BOOLEAN
    /\ now = 0
    /\ episodic = [buffer |-> [i \in 1..max_episodic_size |-> << >>],
                   head |-> 0, size |-> 0]
    /\ semantic = [embeddings |-> << >>, metadata |-> << >>]
    /\ arms = BanditInit
    /\ blocks = [b \in Blocks |-> 0]
    /\ lora = [adaptation_history |-> << >>, rollback_checkpoint |-> << >>]
    /\ call = [p \in Calls |-> IdleCall]
    /\ appended = << >>
    /\ nFeedback = 0
    /\ nInserts = 0
    /\ last = NoCall
    /\ evicted = {}
    /\ profile = NoProfile
    /\ pi = IdleInteraction
    /\ update = NoUpdate
    /\ nUpdates = 0

Init == InitWith(SemanticSizes) /\ serial = TRUE

ConcInit == InitWith(SemanticSizes) /\ serial = FALSE

\* getAdaptationMetadata with the capacity of the buffer for its size
getAdaptationMetadataBufferLength(ep, sem, lo, prof, stats) ==
    [total_interactions |-> Len(ep.buffer),
     adaptation_count |-> Len(lo.adaptation_history),
     successful_adaptations |->
         Cardinality({i \in 1..Len(lo.adaptation_history) :
                         lo.adaptation_history[i].success}),
     memory_efficiency |-> getMemoryFootprint(ep, sem),
     learning_rate |-> getCurrentLR(BoundThis, prof.update_count),
     bandit_performance |-> getPerformanceMetrics(stats)]

\* getAdaptationMetadata
getAdaptationMetadata(ep, sem, lo, prof, stats) ==
    [total_interactions |-> ep.size,
     adaptation_count |-> Len(lo.adaptation_history),
     successful_adaptations |->
         Cardinality({i \in 1..Len(lo.adaptation_history) :
                         lo.adaptation_history[i].success}),
     memory_efficiency |-> getMemoryFootprint(ep, sem),
     learning_rate |-> getCurrentLR(BoundThis, prof.update_count),
     bandit_performance |-> getPerformanceMetrics(stats)]

\* the call once its adaptation attempt is over: the history of the attempt
\* (the parameters and the adaptation history it started from) is dropped
Settled(c) == [c EXCEPT !.paramsBefore = << >>, !.historyBefore = << >>]

\* no provideFeedback call is between its start and its return
Quiet ==
    /\ \A p \in Calls : call[p].pc \in {"idle", "returned", "rejected"}
    /\ pi.pc # "context"

\* Date.now() advances
Tick ==
    /\ now < MaxTime
    /\ now' = now + 1
    /\ UNCHANGED <<config, profileState, pi, episodic, semantic, arms, blocks, lora, call,
                   appended, nFeedback, nInserts, last, evicted>>

\* ------------------------------------------------------ Orchestrator
\* processInteraction resumes with the behavioral signals: lines 534-541,
\* the episodic append, the profile update, up to the await of
\* generateDynamicContext.  A caller that awaits each call has taken the
\* outcome of its last provideFeedback by now.
ProcessInteraction(embedding) ==
    /\ serial => Quiet
    /\ pi.pc # "context"
    /\ Len(appended) < MaxAppends
    /\ Len(appended) + nFeedback < MaxCalls
    /\ LET interaction == [content |-> Len(appended) + 1, embedding |-> embedding]
       IN  /\ episodic' = addEpisodicMemory(episodic, interaction, now,
                                            max_episodic_size)
           /\ appended' = Append(appended, EpisodicId(now, episodic.head))
    /\ profile' = updateProfileEmbedding(profile, embedding,
                                         Num(default_gradient_clip))
    /\ pi' = [pc |-> "context", result |-> NoResult]
    /\ call' = IF serial THEN [p \in Calls |-> IdleCall] ELSE call
    /\ UNCHANGED <<config, now, semantic, arms, blocks, lora, nFeedback,
                   nInserts, last, evicted, update, nUpdates>>

\* generateDynamicContext resolved: lines 544-552, bandit.update, then the
\* result with recommend(), getAdaptationMetadata() and getMemoryFootprint()
ContextResolved(draw) ==
    /\ pi.pc = "context"
    /\ LET r == recommend(banditUpdate(arms), draw)
       IN  /\ arms' = r.arms
           /\ pi' = [pc |-> "returned",
                     result |-> <<[user_embedding |-> profile.embedding,
                                   recommended_params |-> r.recommendations,
                                   adaptation_metadata |->
                                       getAdaptationMetadata(episodic, semantic, lora,
                                                             profile, r.arms),
                                   memory_footprint |->
                                       getMemoryFootprint(episodic, semantic)]>>]
    /\ UNCHANGED <<config, profileState, now, episodic, semantic, blocks, lora,
                   call, appended, nFeedback, nInserts, last, evicted>>

\* generateDynamicContext failed: nothing catches it, the call is rejected
ContextThrows ==
    /\ pi.pc = "context"
    /\ pi' = [pc |-> "rejected", result |-> NoResult]
    /\ UNCHANGED <<config, profileState, now, episodic, semantic, arms, blocks,
                   lora, call, appended, nFeedback, nInserts, last, evicted>>

\* the ids a caller may hold: those handed out so far, and one that never was
NeverIssued == EpisodicId(-1, 0)
Ids == {appended[i] : i \in 1..Len(appended)} \cup {NeverIssued}

\* the call once it has returned: what it did is kept, its locals are gone
Done(c, promotion) ==
    [IdleCall EXCEPT !.pc = "returned", !.adaptation = c.adaptation,
                     !.promotion = promotion]

\* addSemanticMemory(embedding, c) called by call p, lines 188-210: run to
\* the await of computeSimilarities, which has the similarities of the
\* embeddings stored at the call, or to the return when the store is empty
AddSemanticMemoryCalled(p, c, embedding) ==
    IF Len(semantic.embeddings) > 0
    THEN /\ call' = [call EXCEPT ![p] =
               [c EXCEPT !.pc = "similarities",
                         !.embedding = embedding,
                         !.dup = MaxSimilarityExceeds(semantic, embedding,
                                                      DefaultThreshold),
                         !.promotion = "started"]]
         /\ UNCHANGED <<semantic, evicted>>
    ELSE /\ semantic' = SemanticPush(semantic, embedding, c, now, max_semantic_size)
         /\ evicted' = evicted \cup Evictions(semantic, embedding, semantic')
         /\ call' = [call EXCEPT ![p] = Done(c, "true")]

\* provideFeedback, lines 571-580, run to the await inside addSemanticMemory
\* or to the return; c is the call so far
Promotion(p, c) ==
    LET found == findInteractionById(episodic, c.interaction_id)
    IN  IF PromoteCond(c.rating) /\ found # << >>
        THEN AddSemanticMemoryCalled(p, c, found[1].embedding)
        ELSE /\ call' = [call EXCEPT ![p] = Done(c, "none")]
             /\ UNCHANGED <<semantic, evicted>>

\* provideFeedback from its start: the reward, then performSafeLoRAUpdate to
\* its await (lines 585-591) or the promotion
FeedbackStart(p, rating, interaction_id, feedback_type) ==
    /\ IF serial
       THEN p = 1 /\ Quiet /\ nFeedback < MaxFeedback
       ELSE call[p].pc = "idle"
    /\ Len(appended) + nFeedback < MaxCalls
    /\ nFeedback' = nFeedback + 1
    /\ arms' = reward(arms, rating)
    /\ LET c == [IdleCall EXCEPT !.rating = rating,
                                 !.interaction_id = interaction_id,
                                 !.feedback_type = feedback_type]
       IN  IF AdaptCond(rating, feedback_type)
           THEN /\ lora' = [lora EXCEPT !.rollback_checkpoint = saveLoRAState(blocks)]
                /\ call' = [call EXCEPT ![p] =
                      [c EXCEPT !.pc = IF findInteractionById(episodic, interaction_id) = << >>
                                       THEN "adapted" ELSE "gradients",
                                !.adaptation = IF findInteractionById(episodic, interaction_id) = << >>
                                               THEN "notfound" ELSE "started",
                                !.paramsBefore = <<blocks>>,
                                !.historyBefore = <<lora.adaptation_history>>]]
                /\ UNCHANGED <<semantic, evicted>>
           ELSE /\ Promotion(p, c)
                /\ UNCHANGED lora
    /\ pi' = IF pi.pc = "context" THEN pi ELSE IdleInteraction
    /\ UNCHANGED <<config, profileState, now, episodic, blocks, appended,
                   nInserts, last>>

\* calculateLoRAGradients rejects, or estimateKLDivergence throws
AdaptationThrows(p) ==
    /\ call[p].pc = "gradients"
    /\ call' = [call EXCEPT ![p].pc = "threw", ![p].adaptation = "failed"]
    /\ UNCHANGED <<config, profileState, pi, now, episodic, semantic, arms, blocks, lora,
                   appended, nFeedback, nInserts, last, evicted>>

\* performSafeLoRAUpdate, lines 593-614, from the gradients to its end
GradientsResolved(p, g, kl, failAt) ==
    /\ call[p].pc = "gradients"
    /\ failAt \in DOMAIN g \cup {n_layers}
    /\ IF ExceedsCap(kl)
       THEN /\ call' = [call EXCEPT ![p].pc = "threw", ![p].kl = kl,
                                    ![p].adaptation = "rejected"]
            /\ UNCHANGED <<blocks, lora>>
       ELSE /\ blocks' = updateBlocks(blocks, g, failAt)
            /\ IF failAt = n_layers
               THEN /\ lora' = [lora EXCEPT !.adaptation_history =
                           Append(@, [timestamp |-> now,
                                      interaction_id |-> call[p].interaction_id,
                                      reward |-> call[p].rating,
                                      kl_divergence |-> kl,
                                      success |-> TRUE])]
                    /\ call' = [call EXCEPT ![p].pc = "adapted", ![p].kl = kl,
                                            ![p].adaptation = "committed"]
               ELSE /\ call' = [call EXCEPT ![p].pc = "threw", ![p].kl = kl,
                                            ![p].adaptation = "partial"]
                    /\ UNCHANGED lora
    /\ UNCHANGED <<config, profileState, pi, now, episodic, semantic, arms, appended, nFeedback,
                   nInserts, last, evicted>>

\* provideFeedback resumes after performSafeLoRAUpdate returned
AdaptationReturned(p) ==
    /\ call[p].pc = "adapted"
    /\ Promotion(p, Settled(call[p]))
    /\ UNCHANGED <<config, profileState, pi, now, episodic, arms, blocks, lora, appended,
                   nFeedback, nInserts, last>>

\* provideFeedback resumes after performSafeLoRAUpdate threw: lines 565-568
AdaptationCaught(p) ==
    /\ call[p].pc = "threw"
    /\ IF TryCatches
       THEN LET r == IF CatchRollsBack THEN rollbackLoRAAdapters(blocks, lora)
                     ELSE [blocks |-> blocks, lora |-> lora]
            IN  /\ blocks' = r.blocks
                /\ lora' = r.lora
                /\ Promotion(p, Settled(call[p]))
       ELSE /\ call' = [call EXCEPT ![p] = [Done(@, "none") EXCEPT !.pc = "rejected"]]
            /\ UNCHANGED <<blocks, lora, semantic, evicted>>
    /\ UNCHANGED <<config, profileState, pi, now, episodic, arms, appended, nFeedback, nInserts,
                   last>>

\* addSemanticMemory resumes after computeSimilarities: lines 192-210
SimilaritiesDone(p) ==
    /\ call[p].pc = "similarities"
    /\ IF call[p].dup
       THEN /\ call' = [call EXCEPT ![p] = Done(@, "false")]
            /\ UNCHANGED <<semantic, evicted>>
       ELSE /\ semantic' = SemanticPush(semantic, call[p].embedding, call[p],
                                        now, max_semantic_size)
            /\ evicted' = evicted \cup Evictions(semantic, call[p].embedding, semantic')
            /\ call' = [call EXCEPT ![p] = Done(@, "true")]
    /\ UNCHANGED <<config, profileState, pi, now, episodic, arms, blocks, lora, appended,
                   nFeedback, nInserts, last>>

Next ==
    \/ Tick
    \/ \E e \in InteractionEmbeds : ProcessInteraction(e)
    \/ \E draw \in SampleDraws : ContextResolved(draw)
    \/ ContextThrows
    \/ \E p \in Calls, r \in Ratings, id \in Ids, ft \in FeedbackTypes :
          FeedbackStart(p, r, id, ft)
    \/ \E p \in Calls : AdaptationThrows(p)
    \/ \E p \in Calls, g \in Gradients, kl \in KLs, failAt \in 0..n_layers :
          GradientsResolved(p, g, kl, failAt)
    \/ \E p \in Calls : AdaptationReturned(p)
    \/ \E p \in Calls : AdaptationCaught(p)
    \/ \E p \in Calls : SimilaritiesDone(p)

Spec == Init /\ [][Next]_vars

ConcSpec == ConcInit /\ [][Next]_vars

\* ------------------------------------------- the semantic store alone
StoreInit ==
    /\ InitWith(StoreSizes)
    /\ max_episodic_size = 1
    /\ lora_active = TRUE
    /\ serial = TRUE

DirectMetadata == [interaction_id |-> EpisodicId(0, 0), rating |-> 9,
                   feedback_type |-> "explicit"]

\* a direct call addSemanticMemory(embedding, metadata, thr), one of at most
\* limit
DirectInsert(embedding, thr, limit) ==
    /\ nInserts < limit
    /\ LET r == addSemanticMemory(semantic, embedding, DirectMetadata, thr,
                                  now, max_semantic_size)
       IN  /\ semantic' = r.store
           /\ last' = Returned(r.result)
           /\ evicted' = IF r.result
                         THEN evicted \cup Evictions(semantic, embedding, semantic')
                         ELSE evicted
    /\ nInserts' = nInserts + 1
    /\ UNCHANGED <<config, profileState, pi, now, episodic, arms, blocks, lora, call, appended,
                   nFeedback>>

AddSemanticMemory(embedding, thr) == DirectInsert(embedding, thr, MaxInserts)

StoreNext ==
    \/ Tick
    \/ \E e \in Embeds, thr \in Thresholds : AddSemanticMemory(e, thr)

StoreSpec == StoreInit /\ [][StoreNext]_vars

\* ------------------------- the semantic store, inserts made concurrently
ConcStoreInit ==
    /\ InitWith(StoreSizes)
    /\ max_episodic_size = 1
    /\ lora_active = TRUE
    /\ serial = FALSE

\* addSemanticMemory(embedding, metadata) called while other calls of it are
\* awaiting computeSimilarities
ConcurrentInsert(p, embedding) ==
    /\ call[p].pc \in {"idle", "returned"}
    /\ nInserts < MaxConcInserts
    /\ nInserts' = nInserts + 1
    /\ AddSemanticMemoryCalled(p, [IdleCall EXCEPT
                                       !.rating = DirectMetadata.rating,
                                       !.interaction_id = DirectMetadata.interaction_id,
                                       !.feedback_type = DirectMetadata.feedback_type],
                               embedding)
    /\ UNCHANGED <<config, profileState, pi, now, episodic, arms, blocks, lora, appended,
                   nFeedback, last>>

ConcStoreNext ==
    \/ Tick
    \/ \E p \in Calls, e \in Embeds : ConcurrentInsert(p, e)
    \/ \E p \in Calls : SimilaritiesDone(p)

ConcStoreSpec == ConcStoreInit /\ [][ConcStoreNext]_vars

\* ------------------ the semantic store, every insert at the default gate
\* six embeddings no two of which exceed the default threshold
WideEmbeds == {<<1, 0>>, <<0, 1>>, <<-1, 0>>, <<0, -1>>, <<3, -4>>, <<-3, 4>>}
GateSizes == {5}

GateInit ==
    /\ InitWith(GateSizes)
    /\ max_episodic_size = 1
    /\ lora_active = TRUE
    /\ serial = TRUE

\* addSemanticMemory(embedding, metadata): similarity_threshold = 0.85
AddAtDefaultThreshold(embedding) ==
    DirectInsert(embedding, DefaultThreshold, MaxGateInserts)

GateNext ==
    \/ Tick
    \/ \E e \in WideEmbeds : AddAtDefaultThreshold(e)

GateSpec == GateInit /\ [][GateNext]_vars

\* --------------------------------------------------- the profile alone
ProfileEmbeds == {<<1000, 0>>, <<1000, 500>>, <<1000, 2000>>, <<4000, 3000>>}
GradientClips == {default_gradient_clip, 50}

ProfileInit ==
    /\ InitWith(SemanticSizes)
    /\ max_episodic_size = 1
    /\ lora_active = TRUE
    /\ serial = TRUE

UpdateProfileEmbedding(new_embedding, gradient_clip) ==
    /\ nUpdates < MaxUpdates
    /\ profile' = updateProfileEmbedding(profile, new_embedding, Num(gradient_clip))
    /\ update' = [new_embedding |-> new_embedding,
                  gradient_clip |-> Num(gradient_clip), before |-> profile]
    /\ nUpdates' = nUpdates + 1
    /\ UNCHANGED <<config, pi, now, episodic, semantic, arms, blocks, lora, call,
                   appended, nFeedback, nInserts, last, evicted>>

ProfileNext ==
    \/ Tick
    \/ \E e \in ProfileEmbeds, clip \in GradientClips : UpdateProfileEmbedding(e, clip)

ProfileSpec == ProfileInit /\ [][ProfileNext]_vars

\* ====================================================================
\* Claims
\* ====================================================================

\* C1: after N appends the episodic size is min(N, C_e), and it never
\* exceeds C_e.
C1_EpisodicSize ==
    /\ episodic.size = Min(Len(appended), max_episodic_size)
    /\ episodic.size <= max_episodic_size

\* the buffer has wrapped: more appends than slots
C1_Witness ==
    /\ Len(appended) > max_episodic_size
    /\ episodic.size = max_episodic_size
    /\ episodic.size < Len(appended)

\* C2: after N > C_e appends, lookup by id returns the matching record for
\* each of the C_e most recent records and nothing for the id of any earlier
\* record.
C2_RecentRetrievable ==
    Len(appended) > max_episodic_size =>
        \A i \in 1..Len(appended) :
            LET r == findInteractionById(episodic, appended[i])
            IN  IF i > Len(appended) - max_episodic_size
                THEN r # << >> /\ r[1].content = i
                ELSE r = << >>

\* C3: after any semantic insert the number of stored records is at most
\* C_s, for every capacity C_s >= 1.
C3_SemanticBounded ==
    /\ Len(semantic.embeddings) <= max_semantic_size
    /\ Len(semantic.metadata) = Len(semantic.embeddings)

\* C4 as claimed: an insert whose maximum similarity to the stored
\* embeddings is >= the threshold returns false and changes nothing; below
\* the threshold, or into an empty store, it returns true and the store grows
\* by one record when pruning does not trigger.
C4_GateAtLeast ==
    [][\A e \in Embeds, thr \in Thresholds :
          AddSemanticMemory(e, thr) =>
              IF \E i \in 1..Len(semantic.embeddings) :
                    CosineAtLeast(e, semantic.embeddings[i], thr)
              THEN last' = "false" /\ semantic' = semantic
              ELSE /\ last' = "true"
                   /\ Len(semantic.embeddings) + 1 <= max_semantic_size =>
                         /\ semantic'.embeddings = Append(semantic.embeddings, e)
                         /\ Len(semantic'.metadata) = Len(semantic.metadata) + 1
      ]_vars

\* C4 amended: an insert whose maximum similarity to the stored embeddings is
\* > the threshold returns false and changes nothing; at or below the
\* threshold, or into an empty store, it returns true and the store grows by
\* exactly the inserted record when pruning does not trigger.  The same
\* embedding inserted twice is stored once when the threshold is below 1.
C4_GateExceeds ==
    [][\A e \in Embeds, thr \in Thresholds :
          AddSemanticMemory(e, thr) =>
              IF \E i \in 1..Len(semantic.embeddings) :
                    CosineExceeds(e, semantic.embeddings[i], thr)
              THEN last' = "false" /\ semantic' = semantic
              ELSE /\ last' = "true"
                   /\ Len(semantic.embeddings) + 1 <= max_semantic_size =>
                         /\ semantic'.embeddings = Append(semantic.embeddings, e)
                         /\ Len(semantic'.metadata) = Len(semantic.metadata) + 1
      ]_vars

\* an embedding stored twice (accepted at similarity = threshold = 1), and
\* then an insert refused as a near-duplicate
C4_Witness ==
    /\ last = "false"
    /\ \E i, j \in 1..Len(semantic.embeddings) :
          i < j /\ semantic.embeddings[i] = semantic.embeddings[j]

\* the adaptation attempt of call p is in flight: its checkpoint is taken
\* and it has neither committed nor been rolled back
InFlight(p) == call[p].pc \in {"gradients", "threw"}

\* the step ends the adaptation attempt of call p after it threw
Handled(p) == call[p].pc = "threw" /\ call'[p].pc # "threw"

\* C5: when the estimated divergence is > klCap (0.1), the attempt leaves
\* the model's parameters as they were before the call, appends no history
\* entry, and adaptation_count and successful_adaptations keep their values.
C5_RejectedUnchanged ==
    [][\A p \in Calls :
          /\ (call[p].pc = "gradients" /\ call'[p].kl > 10) =>
                /\ call'[p].pc = "threw"
                /\ blocks' = blocks
                /\ lora'.adaptation_history = lora.adaptation_history
          /\ (Handled(p) /\ call[p].kl > 10) =>
                /\ blocks' = call[p].paramsBefore[1]
                /\ lora'.adaptation_history = call[p].historyBefore[1]
      ]_vars

\* a call has returned whose adaptation was rejected for its divergence,
\* after an earlier adaptation had been committed
C5_Witness ==
    /\ call[1].pc = "returned"
    /\ call[1].adaptation = "rejected"
    /\ Len(lora.adaptation_history) = 1
    /\ \A b \in Blocks : blocks[b] = 1

\* C6: when any step of the attempt fails after the checkpoint (the candidate
\* delta, the divergence estimate, the delta applied to some blocks only),
\* the parameters are restored to the checkpointed values and no history
\* entry is appended.
C6_FailureRolledBack ==
    [][\A p \in Calls :
          Handled(p) =>
              /\ blocks' = call[p].paramsBefore[1]
              /\ lora'.adaptation_history = call[p].historyBefore[1]
              /\ call'[p].pc # "rejected"
      ]_vars

\* a call has returned after the delta had been applied to one block only
C6_Witness ==
    /\ call[1].pc = "returned"
    /\ call[1].adaptation = "partial"
    /\ \A b \in Blocks : blocks[b] = 0

\* C7: at most one adaptation attempt is in flight at a time.
C7_OneInFlight == Cardinality({p \in Calls : InFlight(p)}) <= 1

\* C8: a rejected or failed adaptation is not propagated to the caller of
\* provideFeedback, and the rest of the call runs: the reward is applied and,
\* for rating > 0.8, the promotion is attempted after the rollback.
C8_FailureNotFatal ==
    [][\A p \in Calls :
          Handled(p) =>
              /\ call'[p].pc # "rejected"
              /\ \A a \in Arms : arms'[a].total_pulls = nFeedback'
              /\ (call[p].rating > 8
                  /\ findInteractionById(episodic, call[p].interaction_id) # << >>)
                    => call'[p].promotion \in {"started", "true"}
      ]_vars

\* a call has returned, its adaptation failed and its promotion made
C8_Witness ==
    /\ call[1].pc = "returned"
    /\ call[1].adaptation = "failed"
    /\ call[1].promotion = "true"

\* the step starts a provideFeedback call
FeedbackStarts == nFeedback' = nFeedback + 1

\* the rating the step passed to reward()
Rewarded == arms'["temperature"].total_reward - arms["temperature"].total_reward

\* the adaptation attempt was invoked by the step: a checkpoint was taken
Attempted(p) == call'[p].adaptation # "none"

\* C9 as claimed: an adaptation attempt is invoked exactly when rating > 0.7
\* and the feedback type is "explicit", in every configuration; otherwise no
\* checkpoint is taken and the model and the history are untouched.
C9_AttemptWhenExplicit ==
    [][FeedbackStarts =>
        \A p \in Calls, r \in {Rewarded}, id \in Ids, ft \in FeedbackTypes :
          FeedbackStart(p, r, id, ft) =>
              /\ Attempted(p) <=> (r > 7 /\ ft = "explicit")
              /\ ~(r > 7 /\ ft = "explicit") => (blocks' = blocks /\ lora' = lora)
      ]_vars

\* C9 amended: an adaptation attempt is invoked exactly when rating > 0.7,
\* the feedback type is "explicit" and the instance was not configured with
\* enable_lora false; otherwise no checkpoint is taken and the model and the
\* history are untouched.
C9_AttemptWhenEnabled ==
    [][FeedbackStarts =>
        \A p \in Calls, r \in {Rewarded}, id \in Ids, ft \in FeedbackTypes :
          FeedbackStart(p, r, id, ft) =>
              /\ Attempted(p) <=> (r > 7 /\ ft = "explicit" /\ lora_active)
              /\ ~(r > 7 /\ ft = "explicit" /\ lora_active)
                    => (blocks' = blocks /\ lora' = lora)
      ]_vars

\* with enable_lora false an explicit 0.9 feedback was promoted and no
\* checkpoint was ever taken
C9_Witness ==
    /\ ~lora_active
    /\ call[1].pc = "returned"
    /\ call[1].adaptation = "none"
    /\ lora.rollback_checkpoint = << >>
    /\ \E i \in 1..Len(semantic.metadata) :
          /\ semantic.metadata[i].feedback_type = "explicit"
          /\ semantic.metadata[i].rating = 9

\* C10: provideFeedback attempts the semantic insert exactly when rating >
\* 0.8, whatever the feedback type and the adaptation's outcome, given the
\* interaction id is in the episodic buffer; for rating <= 0.8 the semantic
\* store is unchanged.
C10_PromotionWhenHigh ==
    [][/\ FeedbackStarts =>
            \A p \in Calls, r \in {Rewarded}, id \in Ids, ft \in FeedbackTypes :
             FeedbackStart(p, r, id, ft) =>
                 /\ r <= 8 => semantic' = semantic
                 /\ ~Attempted(p) =>
                       (call'[p].promotion # "none"
                          <=> (r > 8 /\ findInteractionById(episodic, id) # << >>))
       /\ \A p \in Calls :
             (call[p].pc \in {"adapted", "threw"}
              /\ call'[p].pc \notin {"adapted", "threw"}) =>
                 /\ call[p].rating <= 8 => semantic' = semantic
                 /\ call'[p].promotion # "none"
                       <=> (call[p].rating > 8
                            /\ findInteractionById(episodic, call[p].interaction_id) # << >>)
       /\ \A p \in Calls :
             call[p].pc = "similarities" => call[p].rating > 8
      ]_vars

\* an implicit 0.9 feedback was promoted, and a call whose adaptation was
\* rolled back after a partial update was promoted too
C10_Witness ==
    /\ Len(semantic.metadata) = 2
    /\ semantic.metadata[1].feedback_type = "implicit"
    /\ call[1].pc = "returned"
    /\ call[1].adaptation = "partial"
    /\ call[1].promotion = "true"

\* the first n entries of the history are those of h
Extends(h2, h) == Len(h2) >= Len(h) /\ SubSeq(h2, 1, Len(h)) = h

\* C11: when the interaction exists and the estimated divergence is <= klCap,
\* the attempt applies the delta to every adaptable block and appends exactly
\* one history entry with success = true carrying the interaction id, the
\* reward and the divergence; no step modifies or removes an existing entry.
C11_CommitRecorded ==
    [][/\ \A p \in Calls :
             (call[p].pc = "gradients" /\ call'[p].pc = "adapted") =>
                 /\ call'[p].kl <= 10
                 /\ \E g \in Gradients :
                       blocks' = [b \in Blocks |-> blocks[b] + g[b]]
                 /\ lora'.adaptation_history =
                       Append(lora.adaptation_history,
                              [timestamp |-> now,
                               interaction_id |-> call[p].interaction_id,
                               reward |-> call[p].rating,
                               kl_divergence |-> call'[p].kl,
                               success |-> TRUE])
       /\ \A p \in Calls :
             (call[p].pc = "gradients" /\ call'[p].pc = "threw"
              /\ call'[p].adaptation \notin {"failed", "partial"})
                 => call'[p].kl > 10
       /\ Extends(lora'.adaptation_history, lora.adaptation_history)
      ]_vars

\* two adaptations were committed one after the other
C11_Witness ==
    /\ call[1].pc = "returned"
    /\ call[1].adaptation = "committed"
    /\ Len(lora.adaptation_history) = 2
    /\ \A i \in 1..2 : lora.adaptation_history[i].success
    /\ \A b \in Blocks : blocks[b] = 2

\* C12: an adaptation attempt for an interaction id that is absent from the
\* episodic buffer changes nothing: the parameters, the adaptation history and
\* the controller's checkpoint are as before the call, and nothing is thrown
\* to the caller of provideFeedback.
C12_AbsentIdNoChange ==
    [][FeedbackStarts =>
        \A p \in Calls, r \in {Rewarded}, id \in Ids, ft \in FeedbackTypes :
          (/\ FeedbackStart(p, r, id, ft)
           /\ AdaptCond(r, ft)
           /\ findInteractionById(episodic, id) = << >>) =>
              /\ blocks' = blocks
              /\ lora'.adaptation_history = lora.adaptation_history
              /\ lora'.rollback_checkpoint = lora.rollback_checkpoint
              /\ call'[p].pc # "rejected"
      ]_vars

\* C13: after every attempt that finishes by commit or by rollback the
\* controller holds no checkpoint; a checkpoint exists only while an attempt
\* is in progress.
C13_CheckpointDiscarded ==
    [][\A p \in Calls :
          (InFlight(p) /\ ~InFlight(p)') => lora'.rollback_checkpoint = << >>
      ]_vars

\* the learning rate of the schedule for a given update_count:
\* max(base_lr * decay_rate^update_count, min_lr)
ScheduleLR(update_count) == getCurrentLR("schedule", update_count)

\* a >= b on numbers
AtLeast(a, b) == ~a.nan /\ ~b.nan /\ a.v >= b.v

\* C14: the first profile update sets the profile embedding to the new
\* embedding verbatim and leaves update_count at 0; once set, the profile
\* embedding is never absent again.
C14_FirstUpdateVerbatim ==
    [][/\ \A e \in ProfileEmbeds, clip \in GradientClips :
             (UpdateProfileEmbedding(e, clip) /\ profile.embedding = << >>) =>
                 profile' = [embedding |-> <<e>>, update_count |-> 0]
       /\ profile.embedding # << >> => profile'.embedding # << >>
      ]_vars

\* the first update was made with an embedding of norm 5 and a clip of 0.05,
\* and the profile is that embedding
C14_Witness ==
    /\ update.before = NoProfile
    /\ update.new_embedding = <<4000, 3000>>
    /\ update.gradient_clip = Num(50)
    /\ profile = [embedding |-> <<<<4000, 3000>>>>, update_count |-> 0]

\* C15: on every profile update after the first, the update is committed
\* (profile += clipped delta, update_count += 1) if and only if the norm of
\* the delta (new - profile) * lr after clipping is < stability_threshold;
\* otherwise the profile is left unchanged.  For every gradient_clip.
C15_CommitIffStable ==
    [][\A e \in ProfileEmbeds, clip \in GradientClips :
          (UpdateProfileEmbedding(e, clip) /\ profile.embedding # << >>) =>
              LET current == profile.embedding[1]
                  delta == ClippedDelta(current, e,
                               ScheduleLR(profile.update_count), Num(clip))
              IN  IF Less(Norm(delta), Num(stability_threshold))
                  THEN profile' =
                         [embedding |-> <<[i \in 1..2 |-> current[i] + delta[i].v]>>,
                          update_count |-> profile.update_count + 1]
                  ELSE profile' = profile
      ]_vars

\* C16: update_count never decreases, and the effective learning rate
\* getCurrentLR() is non-increasing and never below min_lr.
C16_LearningRateSchedule ==
    [][/\ profile'.update_count >= profile.update_count
       /\ AtLeast(getCurrentLR(BoundThis, profile.update_count),
                  getCurrentLR(BoundThis, profile'.update_count))
       /\ AtLeast(getCurrentLR(BoundThis, profile'.update_count),
                  Num(learning_schedule.min_lr))
      ]_vars

\* C17: every bandit arm starts at (alpha, beta, total_pulls, total_reward)
\* = (1, 1, 0, 0), no step decreases alpha or beta, and so alpha >= 1 and
\* beta >= 1 in every reachable state.
C17_ShapesPositive ==
    /\ \A a \in Arms :
          arms[a] = [alpha |-> 1, beta |-> 1, total_pulls |-> 0, total_reward |-> 0]
    /\ [][\A a \in Arms :
             /\ arms'[a].alpha >= arms[a].alpha
             /\ arms'[a].beta >= arms[a].beta
             /\ arms'[a].alpha >= 1
             /\ arms'[a].beta >= 1
         ]_vars

\* rewards of both kinds were given, and an interaction was processed after
\* them
C17_Witness ==
    /\ arms["temperature"].alpha = 2
    /\ arms["temperature"].beta = 2
    /\ pi.pc = "returned"

\* C18: each reward(rating) call increments total_pulls by 1 on every arm and
\* exactly one of alpha (rating > 0.5) or beta (otherwise, rating = 0.5
\* included) by 1 on every arm; all arms hold identical statistics.
C18_RewardCounts ==
    [][/\ FeedbackStarts =>
            \A p \in Calls, r \in {Rewarded}, id \in Ids, ft \in FeedbackTypes :
             FeedbackStart(p, r, id, ft) =>
                 \A a \in Arms :
                     /\ arms'[a].total_pulls = arms[a].total_pulls + 1
                     /\ IF r > 5
                        THEN /\ arms'[a].alpha = arms[a].alpha + 1
                             /\ arms'[a].beta = arms[a].beta
                        ELSE /\ arms'[a].alpha = arms[a].alpha
                             /\ arms'[a].beta = arms[a].beta + 1
       /\ \A a, b \in Arms : arms'[a] = arms'[b]
      ]_vars

\* two ratings of exactly 0.5 were rewarded: two failures, no success
C18_Witness ==
    /\ nFeedback = 2
    /\ \A a \in Arms :
          arms[a] = [alpha |-> 1, beta |-> 3, total_pulls |-> 2, total_reward |-> 10]

\* C19: every processInteraction call performs exactly one episodic append
\* followed by exactly one profile update, then samples the bandit and
\* returns recommended parameters for every arm, the profile snapshot and the
\* memory footprint; it never fails after having mutated the memory.
C19_InteractionCompletes ==
    [][/\ \A e \in InteractionEmbeds :
             ProcessInteraction(e) =>
                 /\ Len(appended') = Len(appended) + 1
                 /\ profile' = updateProfileEmbedding(profile, e,
                                                      Num(default_gradient_clip))
                 /\ pi'.pc = "context"
       /\ pi.pc = "context" =>
             /\ pi'.pc \in {"context", "returned"}
             /\ appended' = appended /\ episodic' = episodic /\ profile' = profile
             /\ pi'.pc = "returned" =>
                   /\ DOMAIN pi'.result[1].recommended_params = Arms
                   /\ pi'.result[1].user_embedding = profile.embedding
                   /\ pi'.result[1].memory_footprint =
                         getMemoryFootprint(episodic, semantic)
      ]_vars

Overflows(e, thr) ==
    /\ Len(semantic.embeddings) + 1 > max_semantic_size
    /\ last' = "true"
    /\ AddSemanticMemory(e, thr)

\* C21: whenever a semantic insert makes the store size exceed C_s, that same
\* call removes exactly floor(C_s * 0.2) records, and no record it keeps
\* scores lower (access_count / age) than a record it removed.
C21_PruneRemovesLowest ==
    [][\A e \in Embeds, thr \in Thresholds :
          Overflows(e, thr) =>
              LET pushed == Pushed(semantic, e, DirectMetadata, now)
                  n == Len(pushed.metadata)
              IN  \E removed \in SUBSET (1..n) :
                      /\ Cardinality(removed) = (max_semantic_size * 2) \div 10
                      /\ semantic'.embeddings = Without(pushed.embeddings, removed, 1)
                      /\ semantic'.metadata = Without(pushed.metadata, removed, 1)
                      /\ \A r \in removed, k \in (1..n) \ removed :
                            ~ScoreLess(pushed.metadata[k], pushed.metadata[r], now)
      ]_vars

\* the sixth insert into a store of capacity 5 overflowed it, and one record
\* was removed
C21_Witness ==
    /\ max_semantic_size = 5
    /\ nInserts = 6
    /\ last = "true"
    /\ Len(semantic.embeddings) = 5
    /\ Cardinality(evicted) = 1

\* C22: when all scores tie, the evicted batch is exactly the oldest
\* floor(C_s * 0.2) records, the surviving records keep their insertion
\* order, and embeddings and metadata stay paired index by index.
C22_OldestEvictedFirst ==
    [][\A e \in Embeds, thr \in Thresholds :
          Overflows(e, thr) =>
              LET pushed == Pushed(semantic, e, DirectMetadata, now)
                  n == Len(pushed.metadata)
                  k == (max_semantic_size * 2) \div 10
              IN  (\A i, j \in 1..n :
                      ~ScoreLess(pushed.metadata[i], pushed.metadata[j], now)) =>
                      /\ semantic'.embeddings = SubSeq(pushed.embeddings, k + 1, n)
                      /\ semantic'.metadata = SubSeq(pushed.metadata, k + 1, n)
      ]_vars

\* the oldest record, the only <<1, 0>>, was evicted, and the survivors are
\* the five later records in the order they were inserted
C22_Witness ==
    /\ max_semantic_size = 5
    /\ evicted = {<<1, 0>>}
    /\ semantic.embeddings = <<(<<3, 4>>), (<<4, 3>>), (<<3, 4>>), (<<4, 3>>), (<<4, 3>>)>>
    /\ semantic.metadata[1].timestamp = 0
    /\ semantic.metadata[5].timestamp = 1

\* C27: whenever a semantic insert returns true, the record it inserted is
\* in the store when the call returns, as the newest record.
C27_InsertedSurvives ==
    [][\A e \in Embeds, thr \in Thresholds :
          (last' = "true" /\ AddSemanticMemory(e, thr)) =>
              LET n == Len(semantic'.embeddings)
              IN  /\ n > 0
                  /\ Len(semantic'.metadata) = n
                  /\ semantic'.embeddings[n] = e
                  /\ semantic'.metadata[n].timestamp = now
                  /\ semantic'.metadata[n].access_count = 0
      ]_vars

\* an accepted insert overflowed a store of capacity 5 at time 1, pruning
\* ran, and the record stamped 1 is the last of the store
C27_Witness ==
    /\ max_semantic_size = 5
    /\ last = "true"
    /\ evicted # {}
    /\ now = 1
    /\ semantic.metadata[Len(semantic.metadata)].timestamp = 1
    /\ semantic.metadata[1].timestamp = 0

\* embedding e exceeds the default threshold with x
Similar(e, x) == CosineExceeds(e, x, DefaultThreshold)

\* C23: the dedup gate compares only against current members: an insert of
\* an embedding whose similarity exceeds the threshold with an evicted record
\* and with no current record succeeds, returns true and stores the embedding.
C23_EvictedNotCompared ==
    [][\A e \in WideEmbeds :
          (/\ \E x \in evicted : Similar(e, x)
           /\ \A i \in 1..Len(semantic.embeddings) : ~Similar(e, semantic.embeddings[i])
           /\ AddAtDefaultThreshold(e))
          => /\ last' = "true"
             /\ Len(semantic'.embeddings) > 0
             /\ semantic'.embeddings[Len(semantic'.embeddings)] = e
      ]_vars

\* <<1, 0>> was evicted from a store of capacity 5 and inserted again: it is
\* the newest record and the only one it is similar to
C23_Witness ==
    /\ max_semantic_size = 5
    /\ nInserts = 7
    /\ last = "true"
    /\ <<1, 0>> \in evicted
    /\ Len(semantic.embeddings) = 5
    /\ semantic.embeddings[5] = <<1, 0>>
    /\ \A i \in 1..4 : ~Similar(<<1, 0>>, semantic.embeddings[i])

\* C28: when every insert uses the same similarity threshold and inserts are
\* not interleaved, no two embeddings stored at the same time have cosine
\* similarity greater than the threshold.
C28_StoredPairwiseDissimilar ==
    \A i, j \in 1..Len(semantic.embeddings) :
        i # j => ~Similar(semantic.embeddings[i], semantic.embeddings[j])

\* after a rejected duplicate, an overflow and a prune, a store of capacity 5
\* holds five pairwise dissimilar embeddings
C28_Witness ==
    /\ max_semantic_size = 5
    /\ last = "false"
    /\ evicted # {}
    /\ Len(semantic.embeddings) = 5
    /\ Cardinality({semantic.embeddings[i] : i \in 1..5}) = 5

\* C24: no two appended records receive the same id, even when C_e or more
\* appends happen at the same clock value, so the id of an overwritten
\* record never resolves to a different record.
C24_IdsUnique ==
    /\ \A i, j \in 1..Len(appended) : i # j => appended[i] # appended[j]
    /\ \A i \in 1..Len(appended) :
          LET found == findInteractionById(episodic, appended[i])
          IN  found # << >> => found[1].content = i

\* C29: in every reachable state every bandit arm satisfies
\* alpha + beta = total_pulls + 2, and total_pulls is the number of reward
\* calls made so far.
C29_PullsAccounted ==
    \A a \in Arms :
        /\ arms[a].alpha + arms[a].beta = arms[a].total_pulls + 2
        /\ arms[a].total_pulls = nFeedback

\* two reward calls, one with a rating above 0.5 and one at 0.5
C29_Witness ==
    /\ nFeedback = 2
    /\ \A a \in Arms :
          arms[a] = [alpha |-> 2, beta |-> 2, total_pulls |-> 2, total_reward |-> 12]

\* C30: the total_interactions figure reported by getAdaptationMetadata
\* equals min(N, C_e) after N processed interactions, in the result of
\* processInteraction and whenever it is called.
C30_TotalInteractions ==
    /\ getAdaptationMetadata(episodic, semantic, lora, profile, arms).total_interactions
          = Min(Len(appended), max_episodic_size)
    /\ pi.pc = "returned" =>
          pi.result[1].adaptation_metadata.total_interactions
              = Min(Len(appended), max_episodic_size)

\* the second interaction into a buffer of capacity 1 reported 1
C30_Witness ==
    /\ max_episodic_size = 1
    /\ Len(appended) = 2
    /\ pi.pc = "returned"
    /\ pi.result[1].adaptation_metadata.total_interactions = 1

\* C25: concurrent semantic inserts behave as if serialized: an insert
\* appends only when no embedding stored at that moment exceeds the
\* threshold with its own, so two concurrently inserted embeddings whose
\* similarity is above the threshold are never both stored.
C25_InsertsSerialized ==
    [][\A p \in Calls :
          (call[p].pc = "similarities" /\ call'[p].promotion = "true") =>
              ~MaxSimilarityExceeds(semantic, call[p].embedding, DefaultThreshold)
      ]_vars

\* C26: in every interleaving of concurrent provideFeedback calls the
\* parameters hold the deltas of the entries of the adaptation history: the
\* rollback that ends a failed attempt leaves every block with at least one
\* delta for each success entry, it never undoes a recorded update.
C26_RollbackKeepsCommitted ==
    [][\A p \in Calls :
          Handled(p) =>
              \A b \in Blocks :
                  blocks'[b] >= Cardinality({i \in 1..Len(lora'.adaptation_history) :
                                                lora'.adaptation_history[i].success})
      ]_vars

====
